---- MODULE Spec2Model ----
(***************************************************************************)
(* dotstore: create dot directories in common system places.               *)
(*                                                                         *)
(* A path string is a sequence of one-character strings.  The file system  *)
(* is a function from component lists (the path split at "/") to the kind  *)
(* of entry found there; the root directory <<>> always exists.            *)
(***************************************************************************)
EXTENDS Naturals, Sequences, FiniteSets

VARIABLES fs, unavailable, last, repeated, nenv, ncalls, procs, fs0

vars == <<fs, unavailable, last, repeated, nenv, ncalls, procs, fs0>>

(* ------------------------------ bounds ------------------------------- *)

\* entries the environment adds to the initial file system
MaxEntries == 1
\* store calls in one behaviour
MaxCalls == 2

(* --------------------------- the input sets --------------------------- *)

HomeDir == <<"/", "h">>
SubDir == <<"/", "h", "/", "p">>

\* roots handed to custom_store (one with a trailing separator)
CustomRoots == {HomeDir, SubDir, <<"/", "h", "/">>}

\* relative fragments of one and of three segments
Fragments == {<<"a">>, <<"a", "/", "b", "/", "a">>}

(* ------------------------------ StoreType ----------------------------- *)

StoreType ==
    {"Home", "Config", "ConfigLocal", "Executable", "Audio", "Cache", "Data",
     "DataLocal", "Desktop", "Download", "Document", "Font", "Picture",
     "Preference", "Public", "Runtime", "State", "Template", "Video"}

\* the kinds the dirs crate leaves undefined on some platform
PlatformGated == {"Executable", "Font", "Runtime", "State", "Template"}

\* the environments: which dirs functions return None
Environments == {{}, PlatformGated, StoreType}

None == [some |-> FALSE, path |-> <<>>]
Some(p) == [some |-> TRUE, path |-> p]

\* what the dirs function of a kind returns when the environment defines it
dirs_dir(store) == IF store = "Home" THEN HomeDir ELSE SubDir

\* StoreType::path followed by the call dir_fn()
StoreType_path(unavail, store) ==
    IF store \in unavail THEN None ELSE Some(dirs_dir(store))

(* ------------------------------ std::path ----------------------------- *)

\* index of the first separator of s, Len(s) + 1 when there is none
RECURSIVE FirstSep(_, _)
FirstSep(s, i) ==
    IF i > Len(s) THEN i
    ELSE IF s[i] = "/" THEN i
    ELSE FirstSep(s, i + 1)

\* Path::components of an absolute path: empty and "." pieces are skipped
RECURSIVE components(_)
components(s) ==
    IF s = <<>> THEN <<>>
    ELSE LET n == FirstSep(s, 1)
             piece == SubSeq(s, 1, n - 1)
             rest == components(SubSeq(s, n + 1, Len(s)))
         IN IF piece = <<>> \/ piece = <<".">> THEN rest ELSE <<piece>> \o rest

is_absolute(s) == s # <<>> /\ s[1] = "/"

\* PathBuf::join
join(root, s) ==
    IF is_absolute(s) THEN s
    ELSE IF root = <<>> \/ root[Len(root)] = "/" THEN root \o s
    ELSE root \o <<"/">> \o s

RECURSIVE DotEach(_)
DotEach(s) ==
    IF s = <<>> THEN <<>>
    ELSE IF Head(s) = "/" THEN <<"/", ".">> \o DotEach(Tail(s))
    ELSE <<Head(s)>> \o DotEach(Tail(s))

\* a format that hides every segment of the fragment, not the first alone
format_dot_each(path) == <<".">> \o DotEach(path)

\* format!(".{}", path.display())
format_dot(path) == <<".">> \o path

(* ------------------------------- std::fs ------------------------------ *)

Prefix(p, n) == SubSeq(p, 1, n)
parent(p) == Prefix(p, Len(p) - 1)

\* the kinds of entry: a directory, a directory without write permission,
\* a regular file, a symbolic link whose destination is missing
DirKinds == {"dir", "rodir"}

\* Path::is_dir: a stat that follows links
is_dir(f, p) ==
    \A n \in 1..Len(p) : Prefix(p, n) \in DOMAIN f /\ f[Prefix(p, n)] \in DirKinds

\* Path::exists: a stat that follows links; a dangling link does not exist
exists(f, p) ==
    \/ p = <<>>
    \/ /\ is_dir(f, parent(p))
       /\ p \in DOMAIN f
       /\ f[p] # "symlink"

IoOk(f) == [err |-> "", fs |-> f]
IoErr(e, f) == [err |-> e, fs |-> f]

\* the first proper prefix of p that is no directory, 0 when all are
RECURSIVE Blocked(_, _, _)
Blocked(f, p, n) ==
    IF n >= Len(p) THEN 0
    ELSE IF Prefix(p, n) \in DOMAIN f /\ f[Prefix(p, n)] \in DirKinds
         THEN Blocked(f, p, n + 1)
         ELSE n

\* mkdir(2) of one directory
mkdir(f, p) ==
    LET b == Blocked(f, p, 1) IN
    IF p = <<>> THEN IoErr("AlreadyExists", f)
    ELSE IF b # 0
         THEN IF Prefix(p, b) \in DOMAIN f /\ f[Prefix(p, b)] = "file"
              THEN IoErr("NotADirectory", f)
              ELSE IoErr("NotFound", f)
    ELSE IF p \in DOMAIN f THEN IoErr("AlreadyExists", f)
    ELSE IF Len(p) > 1 /\ f[parent(p)] = "rodir" THEN IoErr("PermissionDenied", f)
    ELSE IoOk([q \in DOMAIN f \cup {p} |-> IF q = p THEN "dir" ELSE f[q]])

\* fs::create_dir_all: mkdir from the path upwards while the answer is
\* NotFound, then mkdir of the missing directories from the top down; only an
\* AlreadyExists is looked into with is_dir(), any other error is returned
RECURSIVE create_dir_all(_, _)
create_dir_all(f, p) ==
    IF p = <<>> THEN IoOk(f)
    ELSE LET m == mkdir(f, p) IN
         IF m.err = "" THEN m
         ELSE IF m.err # "NotFound"
              THEN IF m.err = "AlreadyExists" /\ is_dir(f, p) THEN IoOk(f) ELSE m
         ELSE LET up == create_dir_all(f, parent(p)) IN
              IF up.err # "" THEN up
              ELSE LET m2 == mkdir(up.fs, p) IN
                   IF m2.err = "" THEN m2
                   ELSE IF m2.err = "AlreadyExists" /\ is_dir(up.fs, p)
                        THEN IoOk(up.fs)
                        ELSE m2

(* ------------------------------ dotstore ------------------------------ *)

\* a create_dir that empties a directory it finds in place
create_dir_fresh(f, path) ==
    LET p == components(path) IN
    IF ~exists(f, p)
    THEN LET r == create_dir_all(f, p) IN
         [err |-> r.err, fs |-> r.fs, tried |-> 1]
    ELSE [err |-> "",
          fs |-> [q \in {x \in DOMAIN f : ~(Len(x) > Len(p) /\ Prefix(x, Len(p)) = p)}
                      |-> f[q]],
          tried |-> 0]

\* a create_dir that creates the parent of the path it is given
create_dir_parent(f, path) ==
    LET p == components(path) IN
    IF ~exists(f, p)
    THEN LET r == create_dir_all(f, parent(p)) IN
         [err |-> r.err, fs |-> r.fs, tried |-> 1]
    ELSE [err |-> "", fs |-> f, tried |-> 0]

\* a create_dir that drops the result of create_dir_all
create_dir_swallow(f, path) ==
    LET p == components(path) IN
    IF ~exists(f, p)
    THEN LET r == create_dir_all(f, p) IN
         [err |-> "", fs |-> r.fs, tried |-> 1]
    ELSE [err |-> "", fs |-> f, tried |-> 0]

create_dir(f, path) ==
    LET p == components(path) IN
    IF ~exists(f, p)
    THEN LET r == create_dir_all(f, p) IN
         [err |-> r.err, fs |-> r.fs, tried |-> 1]
    ELSE [err |-> "", fs |-> f, tried |-> 0]

\* the value a store function hands back, with the file system it leaves
Outcome(status, value, d, q) ==
    [status |-> status, some |-> value.some, path |-> value.path,
     err |-> d.err, tried |-> d.tried, queried |-> q, fs |-> d.fs]

\* a create_store that falls back on the home directory
create_store_fallback(f, unavail, store, path) ==
    LET root == StoreType_path(unavail, store)
        store_dir == join(IF root.some THEN root.path ELSE HomeDir, format_dot(path))
        d == create_dir(f, store_dir)
    IN IF d.err # ""
       THEN Outcome("Err", None, d, {store})
       ELSE Outcome("Ok", Some(store_dir), d, {store})

create_store(f, unavail, store, path) ==
    LET root == StoreType_path(unavail, store) IN
    IF root.some
    THEN LET store_dir == join(root.path, format_dot(path))
             d == create_dir(f, store_dir)
         IN IF d.err # ""
            THEN Outcome("Err", None, d, {store})
            ELSE Outcome("Ok", Some(store_dir), d, {store})
    ELSE Outcome("Ok", None, [err |-> "", fs |-> f, tried |-> 0], {store})

\* a custom_store that asks the resolver for the home directory first
custom_store_resolved(f, root_path, target) ==
    LET home == StoreType_path(unavailable, "Home") IN
    IF home.some
    THEN LET store_dir == join(root_path, format_dot(target))
             d == create_dir(f, store_dir)
         IN IF d.err # ""
            THEN Outcome("Err", None, d, {"Home"})
            ELSE Outcome("Ok", Some(store_dir), d, {"Home"})
    ELSE Outcome("Ok", None, [err |-> "", fs |-> f, tried |-> 0], {"Home"})

custom_store(f, root_path, target) ==
    LET store_dir == join(root_path, format_dot(target))
        d == create_dir(f, store_dir)
    IN IF d.err # ""
       THEN Outcome("Err", None, d, {})
       ELSE Outcome("Ok", Some(store_dir), d, {})

(* ------------------------------ the state ----------------------------- *)

NoCall ==
    [op |-> "none", root |-> <<>>, target |-> <<>>, status |-> "Ok",
     some |-> FALSE, path |-> <<>>, err |-> "", tried |-> 0,
     queried |-> {}, created |-> {}, before |-> "none", blocker |-> "none"]

\* the directories a store can come to lie in
Bases == {components(r) : r \in CustomRoots} \cup {components(dirs_dir(k)) : k \in StoreType}

Targets ==
    {components(join(r, format_dot(t))) : r \in CustomRoots \cup {dirs_dir(k) : k \in StoreType},
                                          t \in Fragments}

\* where the environment puts entries: on the way to a store, or inside one
EnvPaths == UNION {{Prefix(t, n) : n \in 1..Len(t)} : t \in Targets}

Chain(p) == [q \in {Prefix(p, n) : n \in 1..Len(p)} |-> "dir"]

InitFs == {Chain(<<>>)} \cup {Chain(b) : b \in Bases}

Init ==
    /\ fs \in InitFs
    /\ unavailable \in Environments
    /\ last = NoCall
    /\ repeated = FALSE
    /\ nenv = 0
    /\ ncalls = 0
    /\ procs = <<>>
    /\ fs0 = fs

(* --------------------------- the environment -------------------------- *)

EnvCreate(p, kind) ==
    /\ nenv < MaxEntries
    /\ p \notin DOMAIN fs
    /\ is_dir(fs, parent(p))
    /\ fs' = [q \in DOMAIN fs \cup {p} |-> IF q = p THEN kind ELSE fs[q]]
    /\ nenv' = nenv + 1
    /\ UNCHANGED <<unavailable, last, repeated, ncalls, procs, fs0>>

EnvMkdir == \E p \in EnvPaths : EnvCreate(p, "dir")
EnvCreateFile == \E p \in EnvPaths : EnvCreate(p, "file")
EnvSymlink == \E p \in EnvPaths : EnvCreate(p, "symlink")
EnvMkdirReadOnly == \E p \in EnvPaths : EnvCreate(p, "rodir")

(* ------------------------------ the calls ----------------------------- *)

\* the component list of the directory a call is asked to provide
StoreDir(base, target) == components(base) \o components(<<".">> \o target)

KindAt(f, p) == IF p \in DOMAIN f THEN f[p] ELSE "absent"

\* the kind of the first entry above p that is no directory, "none" without one
BlockerOf(f, p) ==
    LET b == Blocked(f, p, 1) IN
    IF b = 0 THEN "none" ELSE KindAt(f, Prefix(p, b))

Call(op, root, target, base, r) ==
    /\ ncalls < MaxCalls
    /\ fs' = r.fs
    /\ last' = [op |-> op, root |-> root, target |-> target,
                status |-> r.status, some |-> r.some, path |-> r.path,
                err |-> r.err, tried |-> r.tried, queried |-> r.queried,
                created |-> DOMAIN r.fs \ DOMAIN fs,
                before |-> IF r.queried \cap unavailable # {} THEN "none"
                           ELSE KindAt(fs, StoreDir(base, target)),
                blocker |-> IF r.queried \cap unavailable # {} THEN "none"
                            ELSE BlockerOf(fs, StoreDir(base, target))]
    /\ repeated' = (last.op = op /\ last.root = root /\ last.target = target
                    /\ last.status = "Ok" /\ last.some)
    /\ ncalls' = ncalls + 1
    /\ UNCHANGED <<unavailable, nenv, procs, fs0>>

KindCall(op, store) ==
    \E path \in Fragments :
        Call(op, <<>>, path, dirs_dir(store), create_store(fs, unavailable, store, path))

audio_store == KindCall("audio_store", "Audio")
cache_store == KindCall("cache_store", "Cache")
config_store == KindCall("config_store", "Config")
local_config_store == KindCall("local_config_store", "ConfigLocal")
data_store == KindCall("data_store", "Data")
local_data_store == KindCall("local_data_store", "DataLocal")
desktop_store == KindCall("desktop_store", "Desktop")
document_store == KindCall("document_store", "Document")
download_store == KindCall("download_store", "Download")
executable_store == KindCall("executable_store", "Executable")
font_store == KindCall("font_store", "Font")
home_store == KindCall("home_store", "Home")
picture_store == KindCall("picture_store", "Picture")
preference_store == KindCall("preference_store", "Preference")
public_store == KindCall("public_store", "Public")
runtime_store == KindCall("runtime_store", "Runtime")
state_store == KindCall("state_store", "State")
template_store == KindCall("template_store", "Template")
video_store == KindCall("video_store", "Video")

CustomStore ==
    \E root_path \in CustomRoots, target \in Fragments :
        Call("custom_store", root_path, target, root_path,
             custom_store(fs, root_path, target))

Next ==
    \/ EnvMkdir
    \/ EnvCreateFile
    \/ EnvSymlink
    \/ EnvMkdirReadOnly
    \/ audio_store
    \/ cache_store
    \/ config_store
    \/ local_config_store
    \/ data_store
    \/ local_data_store
    \/ desktop_store
    \/ document_store
    \/ download_store
    \/ executable_store
    \/ font_store
    \/ home_store
    \/ picture_store
    \/ preference_store
    \/ public_store
    \/ runtime_store
    \/ state_store
    \/ template_store
    \/ video_store
    \/ CustomStore

Spec == Init /\ [][Next]_vars

(* ------------------------ two calls at a time ------------------------- *)

(***************************************************************************)
(* Two callers run custom_store for the same directory.  Each system call  *)
(* of create_dir is a step of its own: the stat of path.exists(), every    *)
(* mkdir of create_dir_all and the stat of is_dir() after a mkdir that     *)
(* answered AlreadyExists; any other error ends the call at once.          *)
(* lvl is the length of the prefix create_dir_all is working on; phase is  *)
(* "first" for the mkdir tried before the parent is created and "second"   *)
(* for the one after it.                                                   *)
(***************************************************************************)

Procs == {1, 2}

StartOf(root_path, target) ==
    LET store_dir == join(root_path, format_dot(target)) IN
    [root |-> root_path, target |-> target, path |-> store_dir,
     p |-> components(store_dir), pc |-> "exists", lvl |-> 0, phase |-> "first",
     err |-> "", status |-> "running"]

\* file systems two calls can start from: the way to the target partly there,
\* or an entry that is no writable directory in the way
InitFsConc ==
    {Chain(<<>>)}
    \cup {Chain(q) : q \in EnvPaths}
    \cup {[q \in DOMAIN Chain(e) |-> IF q = e THEN k ELSE "dir"] :
              e \in EnvPaths, k \in {"file", "symlink", "rodir"}}

InitConc ==
    /\ fs \in InitFsConc
    /\ fs0 = fs
    /\ \E r1 \in CustomRoots, r2 \in CustomRoots, t \in Fragments :
           /\ components(r1) = components(r2)
           /\ procs = [i \in Procs |-> StartOf(IF i = 1 THEN r1 ELSE r2, t)]
    /\ unavailable = {}
    /\ last = NoCall
    /\ repeated = FALSE
    /\ nenv = 0
    /\ ncalls = 0

Finish(pr, status) == [pr EXCEPT !.pc = "done", !.status = status]

\* create_dir_all returns Ok for the prefix of length lvl
Return(pr) ==
    IF pr.lvl = Len(pr.p) THEN Finish(pr, "Ok")
    ELSE [pr EXCEPT !.pc = "mkdir", !.lvl = pr.lvl + 1, !.phase = "second"]

\* create_dir: if !path.exists() { fs::create_dir_all(&path)?; } Ok(())
after_exists(pr, found) ==
    IF found THEN Finish(pr, "Ok")
    ELSE [pr EXCEPT !.pc = "mkdir", !.lvl = Len(pr.p), !.phase = "first"]

\* a create_dir_all that takes a directory made by someone else for a failure
after_mkdir_strict(pr, m) ==
    IF m.err = "" THEN Return(pr)
    ELSE IF pr.phase = "first" /\ m.err = "NotFound"
         THEN IF pr.lvl = 1 THEN [pr EXCEPT !.phase = "second"]
              ELSE [pr EXCEPT !.lvl = pr.lvl - 1]
    ELSE Finish([pr EXCEPT !.err = m.err], "Err")

\* create_dir_all after a mkdir that answered m
after_mkdir(pr, m) ==
    IF m.err = "" THEN Return(pr)
    ELSE IF pr.phase = "first" /\ m.err = "NotFound"
         THEN IF pr.lvl = 1 THEN [pr EXCEPT !.phase = "second"]
              ELSE [pr EXCEPT !.lvl = pr.lvl - 1]
    ELSE IF m.err = "AlreadyExists" THEN [pr EXCEPT !.pc = "isdir", !.err = m.err]
    ELSE Finish([pr EXCEPT !.err = m.err], "Err")

\* create_dir_all after the is_dir() that follows an AlreadyExists
after_is_dir(pr, d) ==
    IF d THEN Return(pr) ELSE Finish(pr, "Err")

Seq0 == <<unavailable, last, repeated, nenv, ncalls, fs0>>

P_exists(i) ==
    /\ procs[i].pc = "exists"
    /\ procs' = [procs EXCEPT ![i] = after_exists(procs[i], exists(fs, procs[i].p))]
    /\ UNCHANGED fs
    /\ UNCHANGED Seq0

P_mkdir(i) ==
    /\ procs[i].pc = "mkdir"
    /\ LET m == mkdir(fs, Prefix(procs[i].p, procs[i].lvl)) IN
           /\ fs' = m.fs
           /\ procs' = [procs EXCEPT ![i] = after_mkdir(procs[i], m)]
    /\ UNCHANGED Seq0

P_is_dir(i) ==
    /\ procs[i].pc = "isdir"
    /\ procs' = [procs EXCEPT ![i] =
                     after_is_dir(procs[i], is_dir(fs, Prefix(procs[i].p, procs[i].lvl)))]
    /\ UNCHANGED fs
    /\ UNCHANGED Seq0

NextConc == \E i \in Procs : P_exists(i) \/ P_mkdir(i) \/ P_is_dir(i)

SpecConc == InitConc /\ [][NextConc]_vars

(* ----------------------------- the claims ----------------------------- *)

Called == last.op # "none"
Succeeded == Called /\ last.status = "Ok" /\ last.some

\* the base directory of the last call: the custom root, or what dirs gave
LastBase ==
    IF last.op = "custom_store" THEN last.root
    ELSE dirs_dir(CHOOSE k \in StoreType : k \in last.queried)

\* the segments of a relative fragment, split at every separator
RECURSIVE Segments(_)
Segments(s) ==
    LET n == FirstSep(s, 1) IN
    IF n > Len(s) THEN <<s>>
    ELSE <<SubSeq(s, 1, n - 1)>> \o Segments(SubSeq(s, n + 1, Len(s)))

\* the segments of a fragment, the first one with a dot in front
Hidden(segs) == <<(<<".">> \o Head(segs))>> \o Tail(segs)

Prefixes(p) == {Prefix(p, n) : n \in 1..Len(p)}

LastTarget == components(last.path)

\* C1: a successful store call returns the base joined with the fragment whose
\* first segment alone has one "." put in front, the other segments unchanged
\* and in the same order.
DotPrefixRule ==
    Succeeded =>
        LastTarget = components(LastBase) \o Hidden(Segments(last.target))

DotPrefixRuleWitness ==
    /\ Succeeded
    /\ Len(Segments(last.target)) = 3
    /\ LastTarget = <<<<"h">>, <<"p">>, <<".", "a">>, <<"b">>, <<"a">>>>

\* C2: calling a store operation again with the inputs of a call that succeeded
\* succeeds again, returns the same path and leaves the file system, with
\* whatever was put into the directory meanwhile, as it was.
Idempotence ==
    [][(ncalls' = ncalls + 1 /\ repeated') =>
           /\ last'.status = "Ok"
           /\ last'.some
           /\ last'.path = last.path
           /\ fs' = fs]_vars

IdempotenceWitness ==
    /\ repeated
    /\ Succeeded
    /\ last.created = {}
    /\ nenv > 0
    /\ \E q \in DOMAIN fs : Len(q) > Len(LastTarget) /\ Prefix(q, Len(LastTarget)) = LastTarget

\* C3: a store call whose target path is occupied by an entry that is no
\* directory returns an I/O failure.
OccupiedTargetFails ==
    (Called /\ last.before \in {"file", "symlink"}) => last.status = "Err"

\* C4 as stated: a successful call on a missing target leaves the target and
\* every ancestor a directory and creates nothing but entries on the way from
\* the base to the target.
CreatesOnlyBelowBase ==
    (Succeeded /\ last.before = "absent") =>
        /\ is_dir(fs, LastTarget)
        /\ \A q \in last.created :
               q \in Prefixes(LastTarget) /\ Len(q) >= Len(components(LastBase))

\* C4 amended: a successful call on a missing target leaves the target and
\* every ancestor a directory and creates nothing but the target and ancestors
\* of it, the base and the directories above the base among them when missing.
AncestorCreation ==
    (Succeeded /\ last.before = "absent") =>
        /\ is_dir(fs, LastTarget)
        /\ LastTarget \in last.created
        /\ last.created \subseteq Prefixes(LastTarget)

AncestorCreationWitness ==
    /\ Succeeded
    /\ last.before = "absent"
    /\ Cardinality(last.created) = 5
    /\ \E q \in last.created : Len(q) < Len(components(LastBase))

\* C5: a per-kind call whose base directory does not resolve aborts; it hands
\* back no ordinary value.
StrictPolicy ==
    (Called /\ last.queried \cap unavailable # {}) => last.status = "Abort"

\* C6: the resolver is never reached for a kind the environment does not
\* define, and never answers "absent" for a kind that has an entry point.
AvailabilityNarrowing ==
    \A k \in last.queried : StoreType_path(unavailable, k).some

\* C7: custom_store never consults the resolver: whatever resolves, none at
\* all included, it is never "absent", and a success is the root joined with
\* the dot-prefixed target, present on disk.
CustomRootBypass ==
    last.op = "custom_store" =>
        /\ last.queried = {}
        /\ last.status = "Ok" => last.some
        /\ last.status = "Ok" =>
               /\ last.path = join(last.root, <<".">> \o last.target)
               /\ exists(fs, LastTarget)

CustomRootBypassWitness ==
    /\ last.op = "custom_store"
    /\ unavailable = StoreType
    /\ Succeeded
    /\ LastTarget \in last.created

\* C9: a failed creation attempt is handed to the caller as the I/O failure it
\* is, after one attempt; when an entry that is no directory lies above the
\* target, the call fails and the file system stays as it was.
FailurePropagation ==
    /\ last.tried <= 1
    /\ last.err # "" => (last.status = "Err" /\ ~last.some /\ last.tried = 1)
    /\ last.status = "Err" => last.err # ""
    /\ (Called /\ last.blocker \in {"file", "symlink"}) =>
           (last.status = "Err" /\ last.created = {} /\ last.tried = 1)

FailurePropagationWitness ==
    /\ Called
    /\ last.blocker = "file"
    /\ last.err = "NotADirectory"
    /\ last.status = "Err"

\* C10: a per-kind call whose base directory does not resolve creates nothing
\* and reports no I/O failure.
ResolutionHasNoEffect ==
    (Called /\ last.queried \cap unavailable # {}) =>
        /\ last.created = {}
        /\ last.tried = 0
        /\ last.status = "Ok"
        /\ last.err = ""

ResolutionHasNoEffectWitness ==
    /\ Called
    /\ last.queried \cap unavailable # {}
    /\ last.status = "Ok"
    /\ ~last.some
    /\ fs = fs0

AllDone == procs # <<>> /\ \A i \in Procs : procs[i].pc = "done"

\* nothing but writable directories lay on the way to p
Unobstructed(f, p) == \A q \in Prefixes(p) : q \in DOMAIN f => f[q] = "dir"

\* C8: two calls for the same target, their system calls interleaved in any
\* order, both succeed with the same path, and the target and its ancestors
\* are directories afterwards; neither fails because the other was first.
ConcurrentCreation ==
    (AllDone /\ Unobstructed(fs0, procs[1].p)) =>
        /\ \A i \in Procs : procs[i].status = "Ok"
        /\ components(procs[1].path) = components(procs[2].path)
        /\ \A q \in Prefixes(procs[1].p) : q \in DOMAIN fs /\ fs[q] = "dir"

\* the second caller's mkdir found the directory the first one had just made
ConcurrentCreationWitness ==
    /\ AllDone
    /\ procs[1].p \notin DOMAIN fs0
    /\ Unobstructed(fs0, procs[1].p)
    /\ \A i \in Procs : procs[i].status = "Ok"
    /\ \E i \in Procs : procs[i].err = "AlreadyExists"

====
